---- MODULE Spec2Model ----
(***************************************************************************)
(* A model of MySQLStatementSamples                                        *)
(* (src/mysql/datadog_checks/mysql/statement_samples.py): the statement    *)
(* sample collection cycle, its three TTL caches, the rate limiter and the *)
(* run_sampler / collection_loop control.                                  *)
(*                                                                         *)
(* Time is a discrete clock `now` in seconds.  The database is the         *)
(* environment: every statement the code sends to it is answered by a      *)
(* value drawn with \E from the answers the server can give.               *)
(***************************************************************************)
EXTENDS Integers, Sequences, FiniteSets, TLC

VARIABLES
    now,                          \* time.time(), in seconds
    config,                       \* the instance configuration (fixed at construction)
    server,                       \* the monitored server: the answers it can give (fixed)
    checkpoint,                   \* self._checkpoint
    rate_limiter,                 \* self._rate_limiter
    collection_strategy_cache,    \* self._collection_strategy_cache
    explained_statements_cache,   \* self._explained_statements_cache
    seen_samples_cache,           \* self._seen_samples_cache
    pc,                           \* position of the execution context inside _collect_statement_samples
    events_statements_table,      \* local of _collect_statement_samples
    rows,                         \* timer_start of the fetched rows not yet consumed by the generators
    events,                       \* number of events yielded so far in this cycle
    filter,                       \* locals of the _filter_valid_statement_rows generator
    last,                         \* record of the call made by the last step (history)
    hist,                         \* history: when invocations began, when cache entries were put
    last_check_run,               \* self._last_check_run
    collection_loop_future,       \* self._collection_loop_future: None or << index into futures >>
    futures,                      \* the futures MySQLStatementSamples.executor has handed out
    counts                        \* the counts sent by collection_loop

engine_vars == << checkpoint, rate_limiter, collection_strategy_cache,
                  explained_statements_cache, seen_samples_cache,
                  pc, events_statements_table, rows, events, filter, hist >>

control_vars == << last_check_run, collection_loop_future, futures, counts >>

vars == << now, config, server, last, engine_vars, control_vars >>

----------------------------------------------------------------------------
(* Bounds of the model *)

MaxTime == 3
MaxControlTime == 5
MinCollectionInterval == 1
MaxFutures == 2
MaxTimerStart == 3
RowLimit == 2
StrategyCacheTtl == 2
ExplainedCacheTtl == 1
ExplainedCacheMaxsize == 1
SeenCacheTtl == 2
SeenCacheMaxsize == 1

----------------------------------------------------------------------------
(* Values *)

None == << >>

Max(a, b) == IF a >= b THEN a ELSE b

RECURSIVE SeqMax(_)
SeqMax(s) == IF Len(s) = 1 THEN s[1] ELSE Max(s[1], SeqMax(Tail(s)))

\* A rate n/d per second is the pair <<n, d>>.
RateUnset == << -1, 1 >>
Rate0 == << 0, 1 >>
Rate1 == << 1, 1 >>
Rate1_10 == << 1, 10 >>

HistoryLong == "events_statements_history_long"
Current == "events_statements_current"
History == "events_statements_history"

\* A variant with events_statements_current as the lowest in preference.
PreferredTablesCurrentLast == << HistoryLong, History, Current >>

EVENTS_STATEMENTS_PREFERRED_TABLES == << HistoryLong, Current, History >>

DEFAULT_EVENTS_STATEMENTS_COLLECTIONS_PER_SECOND ==
    [t \in {HistoryLong, History, Current} |->
        IF t = Current THEN Rate1 ELSE Rate1_10]

Tables == DOMAIN DEFAULT_EVENTS_STATEMENTS_COLLECTIONS_PER_SECOND

CollectionStrategyCacheMaxsize == 1000

----------------------------------------------------------------------------
(* cachetools.TTLCache: a sequence of entries [k, v, exp] in insertion     *)
(* order, oldest first.                                                    *)

CacheExpired(e, t) == e.exp < t

\* expire(time): drop the entries whose time to live has passed.
RECURSIVE CacheExpire(_, _)
CacheExpire(c, t) ==
    IF c = << >> THEN << >>
    ELSE IF CacheExpired(Head(c), t) THEN CacheExpire(Tail(c), t)
    ELSE << Head(c) >> \o CacheExpire(Tail(c), t)

RECURSIVE CacheRemove(_, _)
CacheRemove(c, k) ==
    IF c = << >> THEN << >>
    ELSE IF Head(c).k = k THEN CacheRemove(Tail(c), k)
    ELSE << Head(c) >> \o CacheRemove(Tail(c), k)

CacheKeys(c, t) == { c[i].k : i \in { j \in 1..Len(c) : ~CacheExpired(c[j], t) } }

CacheContains(c, k, t) == k \in CacheKeys(c, t)

CacheGet(c, k, t) ==
    IF CacheContains(c, k, t)
    THEN (CHOOSE e \in { c[i] : i \in 1..Len(c) } : e.k = k).v
    ELSE None

RECURSIVE CacheShrink(_, _)
CacheShrink(c, maxsize) ==
    IF Len(c) + 1 > maxsize /\ c # << >> THEN CacheShrink(Tail(c), maxsize) ELSE c

CachePut(c, k, v, t, ttl, maxsize) ==
    LET swept == CacheExpire(c, t)
        has == \E i \in 1..Len(swept) : swept[i].k = k
        room == IF has THEN CacheRemove(swept, k) ELSE CacheShrink(swept, maxsize)
    IN  Append(room, [k |-> k, v |-> v, exp |-> t + ttl])

\* Keys evicted by a put although they had not expired.
CacheEvicted(c, k, t, maxsize) ==
    LET swept == CacheExpire(c, t)
        has == \E i \in 1..Len(swept) : swept[i].k = k
        room == IF has THEN swept ELSE CacheShrink(swept, maxsize)
    IN  { swept[i].k : i \in 1..Len(swept) } \ { room[i].k : i \in 1..Len(room) }

----------------------------------------------------------------------------
(* datadog_checks.base.utils.db.utils.ConstantRateLimiter *)

Period(rate) == IF rate[1] > 0 THEN rate[2] \div rate[1] ELSE 0

ConstantRateLimiter(rate) == [rate_limit_s |-> rate, called |-> FALSE, last_event |-> 0]

\* The time at which sleep() returns when it is called at time t.
SleepUntil(l, t) == IF l.called THEN Max(t, l.last_event + Period(l.rate_limit_s)) ELSE t

----------------------------------------------------------------------------
(* Module constants of statement_samples.py *)

VALID_EXPLAIN_STATEMENTS == { "select", "table", "delete", "insert", "replace", "update" }

PYMYSQL_NON_RETRYABLE_ERRORS == { 1044, 1046, 1049, 1305, 1370 }

PreferredStatementFirst == << "STATEMENT", "PROCEDURE", "FQ_PROCEDURE" >>

\* self._preferred_explain_strategies
PreferredExplainStrategies == << "PROCEDURE", "FQ_PROCEDURE", "STATEMENT" >>

ExplainStrategies == { "PROCEDURE", "FQ_PROCEDURE", "STATEMENT" }

ExplainStrategyError == << "ERROR" >>

----------------------------------------------------------------------------
(* The answers of the server and of the obfuscator *)

\* The result of one statement sent to the server: `plan` is the first
\* column of the first row (None: NULL or the empty string).
Returned(plan) == [kind |-> "ok", args |-> << >>, plan |-> plan]
DatabaseError(args) == [kind |-> "DatabaseError", args |-> args, plan |-> None]
OtherException == [kind |-> "Exception", args |-> << >>, plan |-> None]

\* The errors of the UPDATE of setup_consumers: the server is read-only, or
\* the user may not update the table.
ErrReadOnly == DatabaseError(<< 1290, "read-only" >>)
ErrUpdateDenied == DatabaseError(<< 1142, "UPDATE command denied" >>)

\* A plan payload is << shape, json >>: what the plan signature is computed
\* from, and whether the JSON holds query_block.cost_info.query_cost
\* ("cost"), lacks it ("nocost") or is not JSON at all ("malformed").
PlanA == << "plan_a", "cost" >>

\* The same plan without query_block.cost_info.query_cost, and a payload that
\* is not JSON.
PlanNoCost == << "plan_a", "nocost" >>
PlanMalformed == << "plan_a", "malformed" >>

\* The statements of the workload: SQL text as its words, the digest the
\* query signature is computed from, the default schema, and what the
\* obfuscator does with the row ("ok", "sql_fails", "digest_fails");
\* timer_wait_ns stands for the columns that are NULL in a partial row and
\* that the event copies without computing on them.
Statement(words, digest, schema) ==
    [sql_text |-> words, digest_text |-> digest, current_schema |-> schema,
     timer_wait_ns |-> << 1 >>, obfuscate |-> "ok"]

Digests == { "q1", "q2" }

Schemas == { None, << "db1" >> }

SelectStatements(digests, schemas) ==
    { Statement(<< "select", d >>, d, s) : d \in digests, s \in schemas }

----------------------------------------------------------------------------
(* __init__ *)

PreferredTables(cfg) ==
    IF cfg.events_statements_table # None /\ cfg.events_statements_table[1] \in Tables
    THEN cfg.events_statements_table
    ELSE EVENTS_STATEMENTS_PREFERRED_TABLES

Config(auto, rate, table, limit) ==
    [ auto_enable_events_statements_consumers |-> auto,
      collections_per_second |-> rate,
      events_statements_table |-> table,
      events_statements_row_limit |-> limit,
      min_collection_interval |-> MinCollectionInterval,
      enabled |-> TRUE ]

NoCall == [kind |-> "none"]

\* num_sent and num_truncated of the filter, and len(rows) of the batch it
\* reads; all 0 outside a cycle.
NoFilter == [num_sent |-> 0, num_truncated |-> 0, batch |-> 0]

ComputeSqlSignature(digest) == << "sig", digest >>

SignatureOfAbsentPlan(plan) == << "sig", "plan_a" >>

\* plan_signature: None without a plan (line 303), else
\* compute_exec_plan_signature(normalized_plan)
ComputeExecPlanSignature(plan) == IF plan = None THEN None ELSE << "sig", plan[1] >>

QuerySignatures == { ComputeSqlSignature(d) : d \in Digests }

SamplePairs == { << q, p >> : q \in QuerySignatures, p \in { None, ComputeExecPlanSignature(PlanA) } }

InitEngine ==
    /\ now = 0
    /\ checkpoint = 0
    /\ rate_limiter = ConstantRateLimiter(Rate1)
    /\ collection_strategy_cache = << >>
    /\ explained_statements_cache = << >>
    /\ seen_samples_cache = << >>
    /\ pc = "idle"
    /\ events_statements_table = None
    /\ rows = << >>
    /\ events = 0
    /\ filter = NoFilter
    /\ last = NoCall
    /\ hist = [began |-> None, rate |-> None, prev |-> None,
               explained_at |-> [q \in QuerySignatures |-> None],
               explained_evicted |-> {},
               seen_at |-> [sp \in SamplePairs |-> None],
               seen_evicted |-> {},
               disallowed_at |-> [s \in Schemas |-> None],
               working_at |-> [s \in Schemas |-> None],
               empty |-> FALSE, probed |-> None]
    /\ last_check_run = 0
    /\ collection_loop_future = None
    /\ futures = << >>
    /\ counts = [error |-> 0, inactive_stop |-> 0]

----------------------------------------------------------------------------
(* _get_new_events_statements *)

\* A variant that takes the maximum of an empty batch to be 0.
NewCheckpointOfEmptyIsZero(cp, fetched) == IF fetched = << >> THEN 0 ELSE SeqMax(fetched)

NewCheckpointKept(cp, fetched) == cp

\* The checkpoint after a fetch that returned the rows with these timer_start.
NewCheckpoint(cp, fetched) == IF fetched = << >> THEN cp ELSE SeqMax(fetched)

\* The answers of the server to the query with `timer_start > cp LIMIT limit`:
\* at most `limit` rows, each with a timer_start above cp.  The batches are
\* listed by non-decreasing timer_start: the code reads the timer_start of
\* the rows only through their maximum.
FetchAnswers(cp, limit) ==
    { << >> } \cup
    UNION { { s \in [1..n -> (cp + 1)..MaxTimerStart] :
                \A i \in 1..(n - 1) : s[i] <= s[i + 1] } : n \in 1..limit }

----------------------------------------------------------------------------
(* _get_sample_collection_strategy *)

PlanKey == << "plan_collection_strategy" >>

RangeSet(s) == { s[i] : i \in 1..Len(s) }

\* What the server answers during one selection: the enabled consumers, the
\* tables for which the UPDATE of setup_consumers succeeds (asked only when
\* auto-enabling), the error it raises for the others, and for each table the walk can probe the timer_start of
\* the row its 1-row probe returns (0: no row).
DbAnswers(cfg, srv, cp) ==
    LET oks == IF cfg.auto_enable_events_statements_consumers THEN srv.enable_ok ELSE { {} }
        probed(en, ok) == (en \cup ok) \cap RangeSet(PreferredTables(cfg))
        errors(en, ok) ==
            IF cfg.auto_enable_events_statements_consumers
               /\ RangeSet(PreferredTables(cfg)) \ (en \cup ok) # {}
            THEN { ErrReadOnly, ErrUpdateDenied }
            ELSE { ErrReadOnly }
        answer(en, ok, has, ts, err) ==
            [enabled |-> en, enable_ok |-> ok, enable_error |-> err,
             probe |-> [t \in Tables |-> IF t \in has THEN ts ELSE 0]]
    IN  UNION { UNION { { answer(en, ok, has, ts, err) :
                            has \in SUBSET probed(en, ok), ts \in (cp + 1)..MaxTimerStart,
                            err \in errors(en, ok) }
                        \cup { answer(en, ok, {}, 0, err) : err \in errors(en, ok) } :
                        ok \in oks } :
                en \in srv.consumers }

\* What the server does with the UPDATE of setup_consumers for the table.
EnableAnswer(db, table) ==
    IF table \in db.enable_ok THEN Returned(None) ELSE db.enable_error

EnableConsumerRaisesUnexpected(answer) ==
    [enabled |-> answer.kind = "ok",
     raised |-> answer.kind # "ok" /\ answer.args[1] # 1290]

\* _performance_schema_enable_consumer(name): True when the UPDATE ran; a
\* DatabaseError, 1290 or not, is logged and False returned; any other
\* exception leaves the method.
PerformanceSchemaEnableConsumer(answer) ==
    [enabled |-> answer.kind = "ok",
     raised |-> answer.kind \notin { "ok", "DatabaseError" }]

\* A variant that takes a table without looking at the probe's rows.
ProbeNotLookedAt(db, table) == TRUE

\* rows = self._get_new_events_statements(table, 1); `if not rows: continue`
ProbeHasRows(db, table) == db.probe[table] # 0

\* The walk over the preferred tables from index i on.  acc records the
\* UPDATE statements issued and the tables probed.
RECURSIVE WalkTables(_, _, _, _, _)
WalkTables(tables, i, cfg, db, acc) ==
    IF i > Len(tables) THEN acc
    ELSE LET table == tables[i] IN
        IF table \notin db.enabled /\ ~cfg.auto_enable_events_statements_consumers
        THEN WalkTables(tables, i + 1, cfg, db, acc)
        ELSE LET acc1 == IF table \notin db.enabled
                         THEN [acc EXCEPT !.updates = Append(@, table)]
                         ELSE acc
                 enable == PerformanceSchemaEnableConsumer(EnableAnswer(db, table))
             IN  IF table \notin db.enabled /\ enable.raised
                 THEN [acc1 EXCEPT !.raised = TRUE]
                 ELSE IF table \notin db.enabled /\ ~enable.enabled
                 THEN WalkTables(tables, i + 1, cfg, db, acc1)
                 ELSE LET acc2 == [acc1 EXCEPT !.probes = Append(@, table)] IN
                      IF ~ProbeHasRows(db, table)
                      THEN WalkTables(tables, i + 1, cfg, db, acc2)
                      ELSE [acc2 EXCEPT
                              !.table = << table >>,
                              !.checkpoint = NewCheckpoint(acc.checkpoint, << db.probe[table] >>),
                              !.rate_limit =
                                  IF acc.rate_limit[1] < 0
                                  THEN DEFAULT_EVENTS_STATEMENTS_COLLECTIONS_PER_SECOND[table]
                                  ELSE acc.rate_limit]

SelectFirstTable(cfg, db, cp) ==
    [table |-> << PreferredTables(cfg)[1] >>, rate_limit |-> Rate1,
     checkpoint |-> cp, updates |-> << >>, probes |-> << >>, raised |-> FALSE]

\* The walk of _get_sample_collection_strategy over the preferred tables.
SelectStrategy(cfg, db, cp) ==
    WalkTables(PreferredTables(cfg), 1, cfg, db,
               [table |-> None, rate_limit |-> cfg.collections_per_second,
                checkpoint |-> cp, updates |-> << >>, probes |-> << >>, raised |-> FALSE])

----------------------------------------------------------------------------
(* _filter_valid_statement_rows, _can_explain *)

Lower(w) == IF w = "SELECT" THEN "select" ELSE w

Truncated(sql_text) == sql_text # << >> /\ sql_text[Len(sql_text)] = "..."

\* all(row) on the dict of a DictCursor: the iteration of a dict is over its
\* keys, the names of the columns.
All(row) == \A k \in DOMAIN row : k # ""

\* `if not row or not all(row): continue`
FilterRejectsRow(row) == DOMAIN row = {} \/ ~All(row)

\* The row reaches `num_truncated += 1`.
FilterCountsTruncated(row) ==
    ~FilterRejectsRow(row) /\ row.sql_text # << >> /\ Truncated(row.sql_text)

\* The filter yields the row.
FilterYields(row) ==
    ~FilterRejectsRow(row) /\ row.sql_text # << >> /\ ~Truncated(row.sql_text)

\* The warning at the end of the generator: None, or the two numbers of
\* 'Unable to collect %d/%d statement samples due to truncated SQL text'.
TruncationWarning(num_sent, num_truncated) ==
    IF num_truncated > 0 THEN << num_truncated, num_truncated + num_sent >> ELSE None

CanExplainAnything(statement) == TRUE

\* statement.strip().split(' ', 1)[0].lower() in VALID_EXPLAIN_STATEMENTS
CanExplain(statement) == statement # << >> /\ Lower(statement[1]) \in VALID_EXPLAIN_STATEMENTS

----------------------------------------------------------------------------
(* _explain_statement *)

StrategyCacheKey(schema) == << "explain_strategy", schema >>

StrategyCachePut(c, k, v, t) ==
    CachePut(c, k, v, t, StrategyCacheTtl, CollectionStrategyCacheMaxsize)

\* strategies.remove(cached); strategies.insert(0, cached)
RECURSIVE SeqRemove(_, _)
SeqRemove(s, x) ==
    IF s = << >> THEN << >>
    ELSE IF Head(s) = x THEN Tail(s)
    ELSE << Head(s) >> \o SeqRemove(Tail(s), x)

UnorderedStrategies(cached) == PreferredExplainStrategies

OrderedStrategies(cached) ==
    IF cached # None
    THEN << cached[1] >> \o SeqRemove(PreferredExplainStrategies, cached[1])
    ELSE PreferredExplainStrategies

\* e.args[0] in PYMYSQL_NON_RETRYABLE_ERRORS, for an error unpacked as
\* (error_code, error_message).
NonRetryable(kind, args) ==
    kind = "DatabaseError" /\ Len(args) = 2 /\ args[1] \in PYMYSQL_NON_RETRYABLE_ERRORS

CacheAfterAnyError(cache, key, args, t) ==
    StrategyCachePut(cache, key, ExplainStrategyError, t)

\* if e.args[0] in PYMYSQL_NON_RETRYABLE_ERRORS:
\*     self._collection_strategy_cache[strategy_cache_key] = explain_strategy_error
CacheAfterError(cache, key, args, t) ==
    IF args[1] \in PYMYSQL_NON_RETRYABLE_ERRORS
    THEN StrategyCachePut(cache, key, ExplainStrategyError, t)
    ELSE cache

\* The loop over the strategies from index i on; answers[strategy] is what
\* the server does with that strategy's statement.  The result: the plan,
\* the cache, the attempts made (strategy, outcome, error arguments, plan),
\* and whether an exception left the loop.
RECURSIVE TryStrategies(_, _, _, _, _, _, _)
TryStrategies(strategies, i, answers, key, cache, t, attempts) ==
    IF i > Len(strategies)
    THEN [plan |-> None, cache |-> cache, attempts |-> attempts, raised |-> FALSE]
    ELSE LET strategy == strategies[i]
             a == answers[strategy]
             tried == Append(attempts, << strategy, a.kind, a.args, a.plan >>)
         IN  IF a.kind = "ok"
             THEN IF a.plan # None
                  THEN [plan |-> a.plan,
                        cache |-> StrategyCachePut(cache, key, << strategy >>, t),
                        attempts |-> tried, raised |-> FALSE]
                  ELSE TryStrategies(strategies, i + 1, answers, key, cache, t, tried)
             ELSE IF a.kind = "DatabaseError"
             THEN IF Len(a.args) # 2
                  THEN [plan |-> None, cache |-> cache, attempts |-> tried, raised |-> TRUE]
                  ELSE TryStrategies(strategies, i + 1, answers, key,
                                     CacheAfterError(cache, key, a.args, t), t, tried)
             ELSE [plan |-> None, cache |-> cache, attempts |-> tried, raised |-> TRUE]

\* _explain_statement(cursor, statement, schema) at time t
ExplainStatement(cache, t, statement, schema, use, answers) ==
    LET key == StrategyCacheKey(schema)
        nothing == [plan |-> None, cache |-> cache, attempts |-> << >>,
                    raised |-> FALSE, use |-> None]
        used == << use.kind, use.args >>
    IN  IF ~CanExplain(statement) THEN nothing
        ELSE IF CacheGet(cache, key, t) = ExplainStrategyError THEN nothing
        ELSE IF schema # None /\ use.kind = "DatabaseError"
        THEN IF Len(use.args) # 2
             THEN [nothing EXCEPT !.raised = TRUE, !.use = used]
             ELSE [nothing EXCEPT
                     !.use = used,
                     !.cache = CacheAfterError(cache, key, use.args, t)]
        ELSE IF schema # None /\ use.kind = "Exception"
        THEN [nothing EXCEPT !.raised = TRUE, !.use = used]
        ELSE LET r == TryStrategies(OrderedStrategies(CacheGet(cache, key, t)), 1,
                                    answers, key, cache, t, << >>)
             IN  [plan |-> r.plan, cache |-> r.cache, attempts |-> r.attempts,
                  raised |-> r.raised, use |-> IF schema # None THEN used ELSE None]

\* _explain_statement_safe: an exception of _explain_statement is counted and
\* the plan is absent.
ExplainStatementSafe(cache, t, statement, schema, use, answers) ==
    LET r == ExplainStatement(cache, t, statement, schema, use, answers) IN
    [r EXCEPT !.plan = IF r.raised THEN None ELSE r.plan]

----------------------------------------------------------------------------
(* _collect_plans_for_statements: the two suppression caches *)

\* A variant that never finds the signature.
ExplainedNeverContains(c, q, t) == FALSE

\* query_signature in self._explained_statements_cache
ExplainedContains(c, q, t) == CacheContains(c, q, t)

\* self._explained_statements_cache[query_signature] = True
ExplainedPut(c, q, t) == CachePut(c, q, TRUE, t, ExplainedCacheTtl, ExplainedCacheMaxsize)

\* A variant that never finds the pair.
SeenNeverContains(c, sp, t) == FALSE

\* statement_plan_sig in self._seen_samples_cache
SeenContains(c, sp, t) == CacheContains(c, sp, t)

\* self._seen_samples_cache[statement_plan_sig] = True
SeenPut(c, sp, t) == CachePut(c, sp, TRUE, t, SeenCacheTtl, SeenCacheMaxsize)

----------------------------------------------------------------------------
(* _collect_statement_samples, one step per statement of its body *)

\* The history of puts at time t: a put is remembered for as long as its
\* time to live has not elapsed.
Remembered(at, t, ttl) == [k \in DOMAIN at |-> IF at[k] # None /\ t - at[k][1] > ttl THEN None ELSE at[k]]

HistAt(h, t) ==
    LET ex == Remembered(h.explained_at, t, ExplainedCacheTtl)
        se == Remembered(h.seen_at, t, SeenCacheTtl)
    IN  [h EXCEPT !.disallowed_at = Remembered(@, t, StrategyCacheTtl),
                  !.working_at = Remembered(@, t, StrategyCacheTtl),
                  !.explained_at = ex,
                  !.explained_evicted = { q \in @ : ex[q] # None },
                  !.seen_at = se,
                  !.seen_evicted = { sp \in @ : se[sp] # None }]

\* The clock reaches t.  An expired entry is invisible to every read of a
\* cache and is dropped by its next write: the caches hold their live
\* entries.
ClockReaches(t) ==
    /\ now' = t
    /\ collection_strategy_cache' = CacheExpire(collection_strategy_cache, t)
    /\ explained_statements_cache' = CacheExpire(explained_statements_cache, t)
    /\ seen_samples_cache' = CacheExpire(seen_samples_cache, t)

\* self._rate_limiter.sleep()
CollectSleep ==
    /\ pc = "idle"
    /\ LET wake == SleepUntil(rate_limiter, now) IN
        /\ wake <= MaxTime
        /\ ClockReaches(wake)
        /\ rate_limiter' = [rate_limiter EXCEPT !.called = TRUE, !.last_event = wake]
        /\ hist' = [HistAt(hist, wake) EXCEPT
                      !.began = << now >>, !.rate = None,
                      !.prev = IF hist.began = None THEN None
                               ELSE << hist.began[1], hist.rate >>]
    /\ pc' = "strategy"
    /\ last' = [kind |-> "sleep"]
    /\ UNCHANGED << config, server, checkpoint, events_statements_table, rows, events,
                    filter >>
    /\ UNCHANGED control_vars

\* The limiter after `if self._rate_limiter.rate_limit_s != rate_limit`.
UpdateLimiter(l, rate) == IF l.rate_limit_s # rate THEN ConstantRateLimiter(rate) ELSE l

CachedStrategyNeverFound(cache, t) == None

\* self._collection_strategy_cache.get("plan_collection_strategy")
CachedStrategy(cache, t) == CacheGet(cache, PlanKey, t)

\* _get_sample_collection_strategy() answered from the cache.
CollectStrategyCached ==
    /\ pc = "strategy"
    /\ LET cached == CachedStrategy(collection_strategy_cache, now) IN
        /\ cached # None
        /\ events_statements_table' = << cached[1] >>
        /\ rate_limiter' = UpdateLimiter(rate_limiter, cached[2])
        /\ hist' = [hist EXCEPT !.rate = cached[2]]
        /\ last' = [kind |-> "strategy", cached |-> TRUE, table |-> << cached[1] >>,
                    rate_limit |-> cached[2]]
    /\ pc' = "fetch"
    /\ UNCHANGED << now, config, server, checkpoint, collection_strategy_cache,
                    explained_statements_cache, seen_samples_cache, rows, events, filter >>
    /\ UNCHANGED control_vars

\* _get_sample_collection_strategy() with no cached strategy.
CollectStrategySelect ==
    /\ pc = "strategy"
    /\ CachedStrategy(collection_strategy_cache, now) = None
    /\ \E db \in DbAnswers(config, server, checkpoint) :
        LET s == SelectStrategy(config, db, checkpoint) IN
        /\ checkpoint' = s.checkpoint
        /\ last' = [kind |-> "strategy", cached |-> FALSE, table |-> s.table,
                    rate_limit |-> s.rate_limit, db |-> db,
                    updates |-> s.updates, probes |-> s.probes, raised |-> s.raised]
        /\ IF s.table = None
           THEN /\ pc' = "idle"
                /\ UNCHANGED << collection_strategy_cache, rate_limiter,
                                events_statements_table, hist >>
           ELSE /\ pc' = "fetch"
                /\ collection_strategy_cache' =
                       StrategyCachePut(collection_strategy_cache, PlanKey,
                                        << s.table[1], s.rate_limit >>, now)
                /\ rate_limiter' = UpdateLimiter(rate_limiter, s.rate_limit)
                /\ events_statements_table' = s.table
                /\ hist' = [hist EXCEPT !.rate = s.rate_limit, !.empty = FALSE,
                                        !.probed = << db.probe[s.table[1]] >>]
    /\ UNCHANGED << now, config, server, explained_statements_cache, seen_samples_cache,
                    rows, events, filter >>
    /\ UNCHANGED control_vars

\* rows = self._get_new_events_statements(table, self._events_statements_row_limit)
CollectFetch ==
    /\ pc = "fetch"
    /\ \E fetched \in FetchAnswers(checkpoint, config.events_statements_row_limit) :
        /\ checkpoint' = NewCheckpoint(checkpoint, fetched)
        /\ rows' = fetched
        /\ filter' = [NoFilter EXCEPT !.batch = Len(fetched)]
        /\ last' = [kind |-> "fetch", raised |-> FALSE, before |-> checkpoint,
                    fetched |-> fetched]
        /\ hist' = [hist EXCEPT !.empty = @ \/ fetched = << >>]
    /\ pc' = "rows"
    /\ UNCHANGED << now, config, server, rate_limiter, collection_strategy_cache,
                    explained_statements_cache, seen_samples_cache,
                    events_statements_table, events >>
    /\ UNCHANGED control_vars

\* cursor.execute raises and the exception leaves _collect_statement_samples:
\* either the query (line 240), or, after rows were fetched and the
\* checkpoint raised, 'SET @@SESSION.sql_notes = 0' (line 246).
CollectFetchFails ==
    /\ pc = "fetch"
    /\ pc' = "idle"
    /\ events_statements_table' = None
    /\ \/ /\ last' = [kind |-> "fetch", raised |-> TRUE, before |-> checkpoint,
                       fetched |-> << >>, at |-> "query"]
          /\ UNCHANGED checkpoint
       \/ \E fetched \in FetchAnswers(checkpoint, config.events_statements_row_limit) :
             /\ fetched # << >>
             /\ checkpoint' = NewCheckpoint(checkpoint, fetched)
             /\ last' = [kind |-> "fetch", raised |-> TRUE, before |-> checkpoint,
                         fetched |-> fetched, at |-> "sql_notes"]
    /\ UNCHANGED << now, config, server, rate_limiter, collection_strategy_cache,
                    explained_statements_cache, seen_samples_cache, rows, events, filter,
                    hist >>
    /\ UNCHANGED control_vars

\* _parse_execution_plan_cost(plan): json.loads raises on a payload that is
\* not JSON; the cost is query_block.cost_info.query_cost, or 0.0 without it.
ParseExecutionPlanCost(plan) ==
    [raised |-> plan[2] = "malformed",
     cost |-> IF plan[2] = "cost" THEN << "query_cost" >> ELSE << "0.0" >>]

\* The record of one iteration of the generators over a row.
RowCall(outcome, row, q, r, psig) ==
    [kind |-> "row", outcome |-> outcome,
     schema |-> row.current_schema, query_signature |-> q, plan_signature |-> psig,
     explained |-> r.explained, use |-> r.use, attempts |-> r.attempts,
     raised |-> r.raised, changed |-> r.changed,
     disallowed |-> hist.disallowed_at[row.current_schema] # None,
     working |-> hist.working_at[row.current_schema],
     row |-> row, timer_start |-> Head(rows),
     cached |-> CacheGet(collection_strategy_cache, StrategyCacheKey(row.current_schema), now),
     plan |-> r.plan,
     cost |-> IF r.plan = None \/ ParseExecutionPlanCost(r.plan).raised THEN None
              ELSE ParseExecutionPlanCost(r.plan).cost]

NotExplained ==
    [plan |-> None, attempts |-> << >>, raised |-> FALSE, use |-> None, explained |-> FALSE,
     changed |-> FALSE]

\* The row is dropped before the explain: by the filter, by the obfuscator
\* or by the explained-statements cache.
RowSkipped(outcome, row) ==
    /\ rows' = Tail(rows)
    /\ filter' = IF outcome # "filtered" THEN [filter EXCEPT !.num_sent = @ + 1]
                 ELSE IF FilterCountsTruncated(row) THEN [filter EXCEPT !.num_truncated = @ + 1]
                 ELSE filter
    /\ last' = RowCall(outcome, row, ComputeSqlSignature(row.digest_text), NotExplained, None)
    /\ UNCHANGED << checkpoint, rate_limiter, collection_strategy_cache,
                    explained_statements_cache, seen_samples_cache, pc,
                    events_statements_table, events, hist >>

\* obfuscate_sql(row['digest_text']) raises: nothing catches it.
RowRaised(row) ==
    /\ rows' = << >>
    /\ filter' = NoFilter
    /\ pc' = "idle"
    /\ events' = 0
    /\ events_statements_table' = None
    /\ last' = RowCall("raise", row, None, NotExplained, None)
    /\ UNCHANGED << checkpoint, rate_limiter, collection_strategy_cache,
                    explained_statements_cache, seen_samples_cache, hist >>

\* What self._explain_statement_safe(row['sql_text'], row['current_schema'])
\* can come to, over the answers of the server.
ExplainOutcomes(row) ==
    { ExplainStatementSafe(collection_strategy_cache, now, row.sql_text,
                           row.current_schema, use, answers) :
        use \in server.use, answers \in [ExplainStrategies -> server.explain] }

\* Lines 301-338: the signature is recorded, the statement explained and the
\* event yielded unless its pair was seen.
RowExplained(row, r) ==
    LET q == ComputeSqlSignature(row.digest_text)
        rr == [plan |-> r.plan, attempts |-> r.attempts, raised |-> r.raised,
               use |-> r.use, explained |-> TRUE,
               changed |-> r.cache # collection_strategy_cache]
        sentinel == \/ r.use # None /\ NonRetryable(r.use[1], r.use[2])
                    \/ \E i \in 1..Len(r.attempts) :
                          NonRetryable(r.attempts[i][2], r.attempts[i][3])
        psig == ComputeExecPlanSignature(r.plan)
        sp == << q, psig >>
        malformed == r.plan # None /\ ParseExecutionPlanCost(r.plan).raised
        fresh == ~SeenContains(seen_samples_cache, sp, now)
        h1 == [hist EXCEPT
                 !.disallowed_at[row.current_schema] = IF sentinel THEN << now >> ELSE @,
                 !.working_at[row.current_schema] =
                     IF r.plan # None THEN << now, r.attempts[Len(r.attempts)][1] >>
                     ELSE IF rr.changed THEN None
                     ELSE @,
                 !.explained_at[q] = << now >>,
                 !.explained_evicted =
                     (@ \ {q}) \cup CacheEvicted(explained_statements_cache, q, now,
                                                  ExplainedCacheMaxsize)]
    IN  /\ explained_statements_cache' = ExplainedPut(explained_statements_cache, q, now)
        /\ collection_strategy_cache' = r.cache
        /\ IF malformed
           THEN /\ rows' = << >>
                /\ filter' = NoFilter
                /\ pc' = "idle"
                /\ events' = 0
                /\ events_statements_table' = None
                /\ last' = RowCall("raise", row, q, rr, None)
                /\ hist' = h1
                /\ UNCHANGED seen_samples_cache
           ELSE IF fresh
           THEN /\ rows' = Tail(rows)
                /\ filter' = [filter EXCEPT !.num_sent = @ + 1]
                /\ seen_samples_cache' = SeenPut(seen_samples_cache, sp, now)
                /\ events' = events + 1
                /\ last' = RowCall("event", row, q, rr, psig)
                /\ hist' = [h1 EXCEPT
                              !.seen_at[sp] = << now >>,
                              !.seen_evicted =
                                  (@ \ {sp}) \cup CacheEvicted(seen_samples_cache, sp, now,
                                                               SeenCacheMaxsize)]
                /\ UNCHANGED << pc, events_statements_table >>
           ELSE /\ rows' = Tail(rows)
                /\ filter' = [filter EXCEPT !.num_sent = @ + 1]
                /\ last' = RowCall("seen", row, q, rr, psig)
                /\ hist' = h1
                /\ UNCHANGED << seen_samples_cache, events, pc, events_statements_table >>
        /\ UNCHANGED << checkpoint, rate_limiter >>

\* One iteration of _collect_plans_for_statements over the next fetched row.
ProcessRow ==
    /\ pc = "rows"
    /\ rows # << >>
    /\ \E row \in server.statements :
        IF ~FilterYields(row) THEN RowSkipped("filtered", row)
        ELSE IF row.obfuscate = "sql_fails" THEN RowSkipped("obfuscate", row)
        ELSE IF row.obfuscate = "digest_fails" THEN RowRaised(row)
        ELSE IF ExplainedContains(explained_statements_cache,
                                  ComputeSqlSignature(row.digest_text), now)
        THEN RowSkipped("suppressed", row)
        ELSE \E r \in ExplainOutcomes(row) : RowExplained(row, r)
    /\ UNCHANGED << now, config, server >>
    /\ UNCHANGED control_vars

\* statement_samples_client.submit_events(events) returns, or raises.
Submit ==
    /\ pc = "rows"
    /\ rows = << >>
    /\ pc' = "idle"
    /\ events' = 0
    /\ events_statements_table' = None
    /\ filter' = NoFilter
    /\ \E raised \in BOOLEAN :
          last' = [kind |-> "submit", count |-> events, raised |-> raised,
                   batch |-> filter.batch,
                   warning |-> TruncationWarning(filter.num_sent, filter.num_truncated)]
    /\ UNCHANGED << now, config, server, checkpoint, rate_limiter, collection_strategy_cache,
                    explained_statements_cache, seen_samples_cache, rows, hist >>
    /\ UNCHANGED control_vars

\* Time passes, up to the horizon.
TickUpTo(horizon) ==
    /\ now < horizon
    /\ ClockReaches(now + 1)
    /\ hist' = HistAt(hist, now + 1)
    /\ last' = NoCall
    /\ UNCHANGED << config, server, checkpoint, rate_limiter, pc,
                    events_statements_table, rows, events, filter >>
    /\ UNCHANGED control_vars

Tick == TickUpTo(MaxTime)

Next ==
    \/ CollectSleep
    \/ CollectStrategyCached
    \/ CollectStrategySelect
    \/ CollectFetch
    \/ CollectFetchFails
    \/ ProcessRow
    \/ Submit
    \/ Tick

----------------------------------------------------------------------------
(* run_sampler and collection_loop, in continuous mode (run_sync is false   *)
(* and DBM_STATEMENT_SAMPLER_RUN_SYNC is not set).  A future is             *)
(* [state, pc, exit, exception]: the state of the concurrent.futures        *)
(* Future, the position of its thread in collection_loop, how the loop      *)
(* ended, and whether an exception left collection_loop.  A cycle of the    *)
(* loop is _collect_statement_samples, whose steps are the actions above:   *)
(* the loop sees of it that it returns or raises, and that time passes.     *)

NewFuture == [state |-> "PENDING", pc |-> "start", exit |-> "none", exception |-> FALSE]

Unfinished(futs) == { f \in 1..Len(futs) : futs[f].state # "FINISHED" }

\* A variant that submits only when no loop was ever submitted.
SubmitsOnlyOnce(fut, futs) == fut = None

\* self._collection_loop_future is None or not self._collection_loop_future.running()
SubmitsLoop(fut, futs) == fut = None \/ futs[fut[1]].state # "RUNNING"

\* A variant that stops at twice the interval.
InactiveAtTwiceInterval(t, last_run, interval) == t - last_run >= interval * 2

\* time.time() - self._last_check_run > self._config.min_collection_interval * 2
Inactive(t, last_run, interval) == t - last_run > interval * 2

\* run_sampler(tags).  The check calls it while the clock leaves room for
\* the inactivity of the loop to be seen, and for as long as the executor
\* has a future to hand out.
RunSampler ==
    /\ now + 2 * config.min_collection_interval < MaxControlTime
    /\ Len(futures) < MaxFutures
    /\ IF ~config.enabled
       THEN /\ last' = [kind |-> "run_sampler", prior |-> None, submitted |-> FALSE]
            /\ UNCHANGED control_vars
       ELSE LET submits == SubmitsLoop(collection_loop_future, futures)
                prior == IF collection_loop_future = None THEN None
                         ELSE << futures[collection_loop_future[1]].state,
                                 futures[collection_loop_future[1]].exit >>
            IN  /\ last_check_run' = now
                /\ futures' = IF submits THEN Append(futures, NewFuture) ELSE futures
                /\ collection_loop_future' =
                       IF submits THEN << Len(futures) + 1 >> ELSE collection_loop_future
                /\ last' = [kind |-> "run_sampler", prior |-> prior, submitted |-> submits]
                /\ UNCHANGED counts
    /\ UNCHANGED << now, config, server, engine_vars >>

\* A worker thread of the executor takes the future from the queue and
\* enters collection_loop.
ExecutorStart(f) ==
    /\ futures[f].state = "PENDING"
    /\ futures' = [futures EXCEPT ![f].state = "RUNNING", ![f].pc = "check"]
    /\ last' = [kind |-> "start", future |-> f]
    /\ UNCHANGED << now, config, server, engine_vars,
                    last_check_run, collection_loop_future, counts >>

\* The head of `while True`: the loop stops when the check is inactive,
\* and otherwise enters a cycle.
LoopCheck(f) ==
    /\ futures[f].state = "RUNNING"
    /\ futures[f].pc = "check"
    /\ LET stops == Inactive(now, last_check_run, config.min_collection_interval) IN
        /\ futures' = IF stops
                      THEN [futures EXCEPT ![f].state = "FINISHED", ![f].pc = "done",
                                           ![f].exit = "inactive"]
                      ELSE [futures EXCEPT ![f].pc = "cycle"]
        /\ counts' = IF stops THEN [counts EXCEPT !.inactive_stop = @ + 1] ELSE counts
        /\ last' = [kind |-> "loop_check", future |-> f, stopped |-> stops]
    /\ UNCHANGED << now, config, server, engine_vars,
                    last_check_run, collection_loop_future >>

\* self._collect_statement_samples() returns.
LoopCycleReturns(f) ==
    /\ futures[f].state = "RUNNING"
    /\ futures[f].pc = "cycle"
    /\ futures' = [futures EXCEPT ![f].pc = "check"]
    /\ last' = [kind |-> "cycle", future |-> f, raised |-> FALSE]
    /\ UNCHANGED << now, config, server, engine_vars,
                    last_check_run, collection_loop_future, counts >>

\* self._collect_statement_samples() raises: `except Exception` counts the
\* failure and collection_loop returns.
LoopCycleRaises(f) ==
    /\ futures[f].state = "RUNNING"
    /\ futures[f].pc = "cycle"
    /\ futures' = [futures EXCEPT ![f].state = "FINISHED", ![f].pc = "done",
                                  ![f].exit = "error"]
    /\ counts' = [counts EXCEPT !.error = @ + 1]
    /\ last' = [kind |-> "cycle", future |-> f, raised |-> TRUE]
    /\ UNCHANGED << now, config, server, engine_vars,
                    last_check_run, collection_loop_future >>

ControlTick == TickUpTo(MaxControlTime)

Start == \E f \in 1..Len(futures) : ExecutorStart(f)

Check == \E f \in 1..Len(futures) : LoopCheck(f)

CycleReturns == \E f \in 1..Len(futures) : LoopCycleReturns(f)

CycleRaises == \E f \in 1..Len(futures) : LoopCycleRaises(f)

NextControl ==
    \/ RunSampler
    \/ Start
    \/ Check
    \/ CycleReturns
    \/ CycleRaises
    \/ ControlTick

----------------------------------------------------------------------------
(* Specification Spec: table selection and the fetch, over every answer of *)
(* setup_consumers, with a workload of one statement that is not           *)
(* explainable.                                                            *)

SelectionConfigs ==
    { Config(FALSE, r, None, RowLimit) : r \in { RateUnset, Rate1 } }
    \cup { Config(TRUE, r, None, 1) : r \in { RateUnset, Rate1 } }
    \cup { Config(FALSE, RateUnset, << History >>, 1),
           Config(FALSE, Rate0, None, 1) }

SelectionServer ==
    [ consumers |-> SUBSET Tables,
      enable_ok |-> { {}, Tables },
      statements |-> { Statement(<< "show", "tables" >>, "q1", None) },
      use |-> { Returned(None) },
      explain |-> { Returned(None) } ]

Init ==
    /\ config \in SelectionConfigs
    /\ server = SelectionServer
    /\ InitEngine

Spec == Init /\ [][Next]_vars

----------------------------------------------------------------------------
(* Specification SpecRows: the two suppression caches, over a workload of  *)
(* more distinct statements than the caches hold, each with one plan.      *)

RowsConfig == Config(FALSE, Rate1, << Current >>, RowLimit)

RowsServer ==
    [ consumers |-> { Tables },
      enable_ok |-> { {} },
      statements |-> SelectStatements(Digests, { None }),
      use |-> { Returned(None) },
      explain |-> { Returned(PlanA) } ]

InitRows ==
    /\ config = RowsConfig
    /\ server = RowsServer
    /\ InitEngine

SpecRows == InitRows /\ [][Next]_vars

\* The rows the filter and the obfuscator tell apart: a valid one, one with a
\* truncated text, one with an empty text, a partial one, and two on which
\* the obfuscator fails.
ValidRow == Statement(<< "select", "q1" >>, "q1", None)
TruncatedRow == Statement(<< "select", "..." >>, "q2", None)
EmptyTextRow == Statement(<< >>, "q2", None)
PartialRow == [ValidRow EXCEPT !.timer_wait_ns = None]
SqlFailsRow == [ValidRow EXCEPT !.obfuscate = "sql_fails"]
DigestFailsRow == [ValidRow EXCEPT !.obfuscate = "digest_fails"]

FilterServer ==
    [ consumers |-> { Tables },
      enable_ok |-> { {} },
      statements |-> { ValidRow, TruncatedRow, EmptyTextRow, PartialRow, SqlFailsRow,
                       DigestFailsRow },
      use |-> { Returned(None) },
      explain |-> { Returned(PlanA), Returned(PlanNoCost), Returned(PlanMalformed) } ]

InitFilter ==
    /\ config = RowsConfig
    /\ server = FilterServer
    /\ InitEngine

SpecFilter == InitFilter /\ [][Next]_vars


----------------------------------------------------------------------------
(* Specification SpecExplain: _explain_statement over the answers of USE    *)
(* and of the three explain strategies, for the statements of one schema.   *)

ErrNoProcedure == DatabaseError(<< 1305, "PROCEDURE does not exist" >>)
ErrDenied == DatabaseError(<< 1044, "Access denied" >>)
ErrSyntax == DatabaseError(<< 1064, "syntax error" >>)

ExplainConfig == Config(FALSE, Rate1, << Current >>, 1)

ExplainServer ==
    [ consumers |-> { Tables },
      enable_ok |-> { {} },
      statements |-> SelectStatements({ "q1" }, { << "db1" >> })
                     \cup { Statement(<< "show", "tables" >>, "q2", << "db1" >>) },
      use |-> { Returned(None), ErrDenied, ErrSyntax, OtherException },
      explain |-> { Returned(PlanA), Returned(None), ErrNoProcedure, ErrSyntax } ]

InitExplain ==
    /\ config = ExplainConfig
    /\ server = ExplainServer
    /\ InitEngine

SpecExplain == InitExplain /\ [][Next]_vars

\* A workload for which no plan is ever obtained: a statement that cannot be
\* explained, and a statement for which every strategy returns nothing or
\* raises the non-retryable 1305, which disallows its schema.
NoPlanServer ==
    [ consumers |-> { Tables },
      enable_ok |-> { {} },
      statements |-> { Statement(<< "show", "tables" >>, "q1", None),
                       Statement(<< "select", "q2" >>, "q2", << "db1" >>) },
      use |-> { Returned(None) },
      explain |-> { Returned(None), ErrNoProcedure } ]

InitNoPlan ==
    /\ config = RowsConfig
    /\ server = NoPlanServer
    /\ InitEngine

SpecNoPlan == InitNoPlan /\ [][Next]_vars

----------------------------------------------------------------------------
(* Specification SpecControl: run_sampler, the executor and the loops in    *)
(* every interleaving.  Time passes, a loop that can take a step takes it   *)
(* and a cycle ends; nothing is assumed of when run_sampler is called or    *)
(* of when the executor starts a queued future.                             *)

InitControl ==
    /\ config \in { [RowsConfig EXCEPT !.enabled = e] : e \in BOOLEAN }
    /\ server = RowsServer
    /\ InitEngine

SpecControl ==
    /\ InitControl
    /\ [][NextControl]_vars
    /\ WF_vars(ControlTick)
    /\ \A f \in 1..MaxFutures :
          /\ WF_vars(f \in 1..Len(futures) /\ LoopCheck(f))
          /\ WF_vars(f \in 1..Len(futures) /\ (LoopCycleReturns(f) \/ LoopCycleRaises(f)))

----------------------------------------------------------------------------
(* Properties of the checkpoint (specification Spec) *)

\* C1: the checkpoint never decreases, whatever the step: a probe of the
\* strategy selection, a fetch that returns rows or none, a cycle that fails.
C1_CheckpointNeverDecreases == [][checkpoint' >= checkpoint]_vars

\* A fetch moved the checkpoint that a probe had already moved.
C1_FetchAdvancedCheckpoint ==
    last.kind = "fetch" /\ last.before > 0 /\ checkpoint > last.before

----------------------------------------------------------------------------
(* Properties of the strategy selection (specification Spec) *)

Min(S) == CHOOSE x \in S : \A y \in S : x <= y

\* The table is enabled, or was enabled by the selection, and its probe
\* returns a row.
Qualifies(cfg, db, t) ==
    /\ t \in db.enabled \/ (cfg.auto_enable_events_statements_consumers /\ t \in db.enable_ok)
    /\ db.probe[t] # 0

FirstQualifying(tables, cfg, db) ==
    LET idx == { i \in 1..Len(tables) : Qualifies(cfg, db, tables[i]) }
    IN  IF idx = {} THEN None ELSE << tables[Min(idx)] >>

Selected == last.kind = "strategy" /\ ~last.cached

\* C8: with no cached strategy the selection returns the first table of the
\* preference order that is enabled (or was auto-enabled) and whose probe
\* returns a row, and no table when none qualifies.
C8_FirstQualifyingTableSelected ==
    Selected => last.table = FirstQualifying(PreferredTables(config), config, last.db)

\* The long-history table is enabled and empty, the current table is enabled
\* with rows, and the selection returned the current table.
C8_EmptyHistoryLongSkipped ==
    /\ Selected
    /\ { HistoryLong, Current } \subseteq last.db.enabled
    /\ last.db.probe[HistoryLong] = 0
    /\ last.db.probe[Current] # 0
    /\ last.table = << Current >>

\* C9 as stated: with no table override, events_statements_current is
\* selected only if neither events_statements_history_long nor
\* events_statements_history qualifies.
C9_CurrentSelectedLast ==
    (Selected /\ config.events_statements_table = None /\ last.table = << Current >>)
        => \A t \in { HistoryLong, History } : ~Qualifies(config, last.db, t)

\* C9 as amended: with no table override, events_statements_history is
\* selected only if neither events_statements_history_long nor
\* events_statements_current qualifies.
C9_HistorySelectedLast ==
    (Selected /\ config.events_statements_table = None /\ last.table = << History >>)
        => \A t \in { HistoryLong, Current } : ~Qualifies(config, last.db, t)

\* With no table override the selection returned events_statements_history.
C9_HistorySelected ==
    Selected /\ config.events_statements_table = None /\ last.table = << History >>

----------------------------------------------------------------------------
(* Properties of the rate limit (specification Spec) *)

\* C10: when two consecutive invocations of _collect_statement_samples both
\* resolve the rate 1/10, the second issues its fetch no earlier than 10
\* seconds after the first began.
C10_SecondFetchTenSecondsLater ==
    ( /\ last.kind = "fetch"
      /\ hist.rate = Rate1_10
      /\ hist.prev # None
      /\ hist.prev[2] = Rate1_10 )
        => now >= hist.prev[1] + 10

----------------------------------------------------------------------------
(* Properties of the suppression caches (specification SpecRows) *)

\* C3 as stated: a statement is explained only if no put of its signature
\* into the explained-statements cache is within its time to live.
C3_NotExplainedWithinTtl ==
    [][ (last'.kind = "row" /\ last'.explained)
            => hist.explained_at[last'.query_signature] = None ]_vars

\* C3 as amended: a statement is explained within the time to live of a put
\* of its signature only if that entry was evicted because the cache was full.
C3_NotExplainedWithinTtlUnlessEvicted ==
    [][ (last'.kind = "row" /\ last'.explained
            /\ hist.explained_at[last'.query_signature] # None)
            => last'.query_signature \in hist.explained_evicted ]_vars

\* A row was dropped because its signature is in the cache, in a later
\* invocation than the one that explained it.
C3_SuppressedInLaterBatch ==
    /\ last.kind = "row"
    /\ last.outcome = "suppressed"
    /\ hist.explained_at[last.query_signature] # None
    /\ hist.began # None
    /\ hist.explained_at[last.query_signature][1] < hist.began[1]

\* C4 as stated: an event is yielded for a pair only if no event for that
\* pair was yielded within the time to live of the seen-samples cache.
C4_PairEmittedOncePerTtl ==
    [][ (last'.kind = "row" /\ last'.outcome = "event")
            => hist.seen_at[<< last'.query_signature, last'.plan_signature >>] = None ]_vars

\* C4 as amended: an event is yielded for a pair within the time to live of
\* an earlier event for it only if the pair's entry was evicted because the
\* cache was full.
C4_PairEmittedOncePerTtlUnlessEvicted ==
    [][ (last'.kind = "row" /\ last'.outcome = "event"
            /\ hist.seen_at[<< last'.query_signature, last'.plan_signature >>] # None)
            => << last'.query_signature, last'.plan_signature >> \in hist.seen_evicted ]_vars

\* A statement was explained again and its pair dropped as already seen.
C4_SeenPairDropped == last.kind = "row" /\ last.outcome = "seen"

----------------------------------------------------------------------------
(* Properties of _explain_statement (specification SpecExplain) *)

\* C2: once a non-retryable error is raised for a schema, by USE or by an
\* explain strategy, no strategy is attempted for the schema, neither later
\* in the same call nor in later calls, and the cached ERROR is not replaced,
\* until the cache entry expires.
C2_NonRetryableErrorDisallowsSchema ==
    /\ last.kind = "row" =>
          /\ last.disallowed => last.attempts = << >>
          /\ \A i \in 1..Len(last.attempts) :
                NonRetryable(last.attempts[i][2], last.attempts[i][3])
                    => i = Len(last.attempts)
    /\ \A s \in Schemas :
          hist.disallowed_at[s] # None
              => CacheGet(collection_strategy_cache, StrategyCacheKey(s), now)
                     = ExplainStrategyError

\* The step was a call of _explain_statement_safe for the row.
Explained == last.kind = "row" /\ last.explained

\* The strategy the call found cached for the schema, if any.
CachedMechanism ==
    IF last.cached = None \/ last.cached = ExplainStrategyError THEN None ELSE last.cached

\* The strategies of the attempts of the call, in the order they were made.
Attempted == [i \in 1..Len(last.attempts) |-> last.attempts[i][1]]

\* The attempts follow the cached strategy first and then the given order,
\* each strategy once, and nothing is attempted after a plan was returned.
AttemptsFollow(order) ==
    LET expected == IF CachedMechanism = None THEN order
                    ELSE CachedMechanism \o SeqRemove(order, CachedMechanism[1])
    IN  /\ Len(Attempted) <= Len(expected)
        /\ Attempted = SubSeq(expected, 1, Len(Attempted))
        /\ \A i, j \in 1..Len(Attempted) : i # j => Attempted[i] # Attempted[j]
        /\ \A i \in 1..Len(last.attempts) :
              last.attempts[i][4] # None
                  => i = Len(last.attempts) /\ last.plan = last.attempts[i][4]

\* C17 as stated: the cached mechanism first, then the direct EXPLAIN, the
\* definer-scoped procedure and the fully-qualified procedure in this order,
\* each at most once, stopping at the first plan.
C17_StatementAttemptedBeforeProcedures ==
    Explained => AttemptsFollow(<< "STATEMENT", "PROCEDURE", "FQ_PROCEDURE" >>)

\* C17: the cached mechanism first, then the definer-scoped procedure, the
\* fully-qualified procedure and the direct EXPLAIN in this order, each at
\* most once, stopping at the first plan.
C17_ProceduresAttemptedBeforeStatement ==
    Explained => AttemptsFollow(<< "PROCEDURE", "FQ_PROCEDURE", "STATEMENT" >>)

\* A call with a cached mechanism that returned no plan, so that the others
\* were attempted after it.
C17_CachedThenOthersAttempted ==
    Explained /\ CachedMechanism = << "FQ_PROCEDURE" >> /\ Len(last.attempts) = 3

\* cursor.execute('USE ...') raised a database error with a code and a message.
UseFailed ==
    Explained /\ last.use # None /\ last.use[1] = "DatabaseError" /\ Len(last.use[2]) = 2

\* What the strategy cache holds for the schema of the call, after it.
EntryAfter == CacheGet(collection_strategy_cache, StrategyCacheKey(last.schema), now)

\* C18: when USE raises a database error no strategy is attempted and the
\* plan is absent; the entry of the schema becomes ERROR if the error code
\* is non-retryable and is left as it was for any other code.
C18_UseErrorOmitsPlan ==
    UseFailed =>
        /\ last.attempts = << >>
        /\ last.plan = None
        /\ ~last.raised
        /\ IF last.use[2][1] \in PYMYSQL_NON_RETRYABLE_ERRORS
           THEN EntryAfter = ExplainStrategyError
           ELSE ~last.changed /\ EntryAfter = last.cached

\* USE raised a retryable error for a schema with a cached strategy.
C18_RetryableUseErrorKeepsStrategy ==
    UseFailed /\ last.use[2][1] = 1064 /\ CachedMechanism # None

\* The first keyword of the statement is one a plan can be collected for.
FirstKeywordExplainable(statement) ==
    /\ statement # << >>
    /\ Lower(statement[1]) \in { "select", "table", "delete", "insert", "replace", "update" }

\* C19: with ERROR cached for the schema, and for a statement whose first
\* keyword is not select, table, delete, insert, replace or update, the call
\* returns no plan, runs neither USE nor a strategy and leaves the cache as
\* it is.
C19_SentinelOrKeywordShortCircuits ==
    Explained /\ (last.cached = ExplainStrategyError
                     \/ ~FirstKeywordExplainable(last.row.sql_text)) =>
        /\ last.plan = None
        /\ last.use = None
        /\ last.attempts = << >>
        /\ ~last.raised
        /\ ~last.changed
        /\ EntryAfter = last.cached

\* A statement that can be explained was short-circuited by the cached ERROR.
C19_ShortCircuitedBySentinel ==
    /\ Explained
    /\ last.cached = ExplainStrategyError
    /\ FirstKeywordExplainable(last.row.sql_text)

----------------------------------------------------------------------------
(* Properties of run_sampler and collection_loop (specification SpecControl) *)

\* C5: at most one collection_loop is submitted and not finished at any
\* time, a queued one included.
C5_AtMostOneUnfinishedLoop == Cardinality(Unfinished(futures)) <= 1

\* C6: a loop stops through the inactivity check only when
\* now - last_check_run > 2 * min_collection_interval, and once run_sampler
\* is no longer called every running loop ends.
C6_InactiveLoopStops ==
    /\ [](last.kind = "loop_check" /\ last.stopped
            => now - last_check_run > 2 * config.min_collection_interval)
    /\ (<>[][~RunSampler]_vars
            => <>[](\A f \in 1..Len(futures) : futures[f].state # "RUNNING"))

\* A loop that went through cycles stopped through the inactivity check.
C6_StoppedForInactivity ==
    /\ last.kind = "loop_check"
    /\ last.stopped
    /\ counts.inactive_stop = 1
    /\ futures[last.future].exit = "inactive"

\* C7: a cycle that raises ends its loop: the future is finished and holds
\* no exception, and the failure is counted once; the run_sampler call that
\* finds the future finished submits a new loop.
C7_FailedLoopIsRestarted ==
    /\ counts.error = Cardinality({ f \in 1..Len(futures) : futures[f].exit = "error" })
    /\ \A f \in 1..Len(futures) :
          futures[f].exit = "error"
              => futures[f].state = "FINISHED" /\ ~futures[f].exception
    /\ (last.kind = "run_sampler" /\ last.prior # None /\ last.prior[1] = "FINISHED")
          => /\ last.submitted
             /\ collection_loop_future = << Len(futures) >>
             /\ futures[Len(futures)].state = "PENDING"

\* run_sampler submitted a new loop after the previous one failed.
C7_RestartedAfterFailure ==
    /\ last.kind = "run_sampler"
    /\ last.submitted
    /\ last.prior = << "FINISHED", "error" >>
    /\ counts.error = 1

\* A row is complete when none of its expected columns is NULL
\* (current_schema is NULL for a statement run without a default schema).
Complete(row) == row.timer_wait_ns # None

\* C11: the filter yields exactly the rows that are complete, have a
\* non-empty SQL text and are not truncated, and the warning at the end of
\* the batch, when there is one, reports the truncated rows out of the
\* size of the whole batch.
C11_FilterYieldsValidRowsAndReportsBatch ==
    /\ last.kind = "row" =>
          (last.outcome # "filtered" <=>
              /\ Complete(last.row)
              /\ last.row.sql_text # << >>
              /\ ~Truncated(last.row.sql_text))
    /\ last.kind = "submit" /\ last.warning # None => last.warning[2] = last.batch

\* C12: a row with a NULL in an expected column is never yielded by the
\* filter, so no event is emitted for it.
C12_PartialRowNeverYielded ==
    last.kind = "row" /\ ~Complete(last.row) => last.outcome = "filtered"

\* C13: a row on whose SQL text or digest text the obfuscator fails is
\* skipped, the obfuscation error is counted, nothing is explained or
\* emitted, neither suppression cache changes, and the cycle goes on with
\* the rows that remain.
C13_ObfuscationFailureSkipsRow ==
    [][ /\ pc = "rows" /\ rows # << >>
        /\ last'.kind = "row" /\ FilterYields(last'.row) /\ last'.row.obfuscate # "ok"
        => /\ last'.outcome = "obfuscate"
           /\ ~last'.explained
           /\ pc' = "rows"
           /\ events' = events
           /\ explained_statements_cache' = explained_statements_cache
           /\ seen_samples_cache' = seen_samples_cache ]_vars

\* C14: the cost of a returned plan is its query_block.cost_info.query_cost,
\* or 0.0 when the plan has none or is not JSON; no exception leaves the
\* cycle.
C14_PlanCostDefaultsToZero ==
    last.kind = "row" /\ last.plan # None =>
        /\ last.outcome # "raise"
        /\ last.cost = IF last.plan[2] = "cost" THEN << "query_cost" >> ELSE << "0.0" >>

\* C15: the rate limit of a selected strategy is the configured
\* collections_per_second when that is positive and the default of the
\* selected table otherwise, so it is always positive.
C15_RateIsOverrideOrTableDefault ==
    Selected /\ last.table # None =>
        /\ last.rate_limit =
              IF config.collections_per_second[1] > 0
              THEN config.collections_per_second
              ELSE DEFAULT_EVENTS_STATEMENTS_COLLECTIONS_PER_SECOND[last.table[1]]
        /\ last.rate_limit[1] > 0

\* The step is a call of _get_sample_collection_strategy.
StrategyCall == pc = "strategy" /\ pc' # "strategy"

----------------------------------------------------------------------------
(* Properties of a cycle without a strategy, of the enabling of consumers and
   of a failed fetch (specification Spec) *)

\* C21: when no table qualifies the selection returns no strategy and
\* writes nothing to the strategy cache, and the cycle ends there: nothing is
\* fetched, explained or emitted and the rate limiter stays as it is; an
\* entry written to the strategy cache is the pair of a table whose probe
\* returned a row.
C21_NoStrategyCycleIsNoOp ==
    [][ LET c == CacheGet(collection_strategy_cache, PlanKey, now)
            c1 == CacheGet(collection_strategy_cache', PlanKey, now')
            tables == PreferredTables(config)
        IN  /\ StrategyCall /\ ~last'.cached
                  /\ (\A i \in 1..Len(tables) : ~Qualifies(config, last'.db, tables[i]))
                  => last'.table = None
            /\ StrategyCall /\ last'.table = None =>
                  /\ ~last'.cached
                  /\ collection_strategy_cache' = collection_strategy_cache
                  /\ rate_limiter' = rate_limiter
                  /\ checkpoint' = checkpoint
                  /\ explained_statements_cache' = explained_statements_cache
                  /\ seen_samples_cache' = seen_samples_cache
                  /\ pc' = "idle" /\ rows' = << >> /\ events' = 0
            /\ c1 # None /\ c1 # c =>
                  /\ StrategyCall /\ ~last'.cached
                  /\ last'.table = << c1[1] >> /\ last'.rate_limit = c1[2]
                  /\ last'.db.probe[c1[1]] # 0 ]_vars

\* The selection probed a table, found no row in any, and ended the cycle.
C21_NoTableQualified ==
    Selected /\ last.table = None /\ last.probes # << >> /\ pc = "idle"

\* The walk came to the table: it was skipped as not enabled, or the UPDATE
\* was issued for it, or it was probed.
Visited(t) ==
    \/ t \in RangeSet(last.probes) \cup RangeSet(last.updates)
    \/ t \notin last.db.enabled /\ ~config.auto_enable_events_statements_consumers

\* C22: a table that is not enabled is probed only when auto-enabling is
\* permitted and its UPDATE succeeded; without auto-enabling no UPDATE is
\* issued; a database error of the UPDATE, 1290 or another, is not raised:
\* the walk goes on to the next table.
C22_EnableFailureSkipsTable ==
    Selected =>
        LET tables == PreferredTables(config) IN
        /\ \A t \in RangeSet(last.probes) :
              \/ t \in last.db.enabled
              \/ /\ config.auto_enable_events_statements_consumers
                 /\ t \in RangeSet(last.updates)
                 /\ EnableAnswer(last.db, t).kind = "ok"
        /\ ~config.auto_enable_events_statements_consumers => last.updates = << >>
        /\ \A t \in RangeSet(last.updates) : t \notin last.db.enabled
        /\ ~last.raised
        /\ \A j \in 1..Len(tables) :
              (\A i \in 1..(j - 1) : ~Qualifies(config, last.db, tables[i]))
                  => Visited(tables[j])

\* The UPDATE for the first table failed with an error other than 1290 and
\* the walk went on to select a later table.
C22_WentOnAfterUnexpectedError ==
    /\ Selected
    /\ last.updates # << >>
    /\ EnableAnswer(last.db, last.updates[1]) = ErrUpdateDenied
    /\ last.table # None

\* C23: a database error raised in the fetch of the cycle leaves the
\* checkpoint and the three caches as they were, no event is emitted or
\* submitted, and the cycle ends with the error.
C23_FailedFetchChangesNothing ==
    [][ pc = "fetch" /\ last'.kind = "fetch" /\ last'.raised =>
          /\ checkpoint' = checkpoint
          /\ collection_strategy_cache' = collection_strategy_cache
          /\ explained_statements_cache' = explained_statements_cache
          /\ seen_samples_cache' = seen_samples_cache
          /\ events' = 0 /\ rows' = << >>
          /\ pc' = "idle" ]_vars

----------------------------------------------------------------------------
(* Properties of the events of rows without a plan (specification
   SpecNoPlan) *)

\* The step explained a row and obtained no plan.
ExplainedWithoutPlan == last'.kind = "row" /\ last'.explained /\ last'.plan = None

\* What C25 says of the event of a row without a plan: the plan signature is
\* absent, the event is emitted if and only if the pair of the query
\* signature and the absent plan signature was not seen, and the query
\* signature is recorded in the explained-statements cache.
EventWithoutPlan ==
    LET q == last'.query_signature
        sp == << q, None >>
    IN  /\ last'.plan_signature = None
        /\ last'.outcome \in { "event", "seen" }
        /\ last'.outcome = "event" <=> ~SeenContains(seen_samples_cache, sp, now)
        /\ last'.outcome = "event" =>
              events' = events + 1 /\ SeenContains(seen_samples_cache', sp, now')
        /\ last'.outcome = "seen" =>
              events' = events /\ seen_samples_cache' = seen_samples_cache
        /\ ~ExplainedContains(explained_statements_cache, q, now)
        /\ ExplainedContains(explained_statements_cache', q, now')

\* C25 as stated: a row that passes the filter and the explained-statements
\* cache yields an event without a plan signature when no plan was obtained,
\* unless the pair was seen; its signature is recorded, so that the statement
\* is not explained again within the time to live.
C25_EventWithoutPlanSuppressedForTtl ==
    [][ ExplainedWithoutPlan =>
          /\ EventWithoutPlan
          /\ hist.explained_at[last'.query_signature] = None ]_vars

\* C25 as amended: the same, the statement being explained again within the
\* time to live only if its entry was evicted because the cache was full.
C25_EventWithoutPlanSuppressedUnlessEvicted ==
    [][ ExplainedWithoutPlan =>
          /\ EventWithoutPlan
          /\ hist.explained_at[last'.query_signature] # None
                => last'.query_signature \in hist.explained_evicted ]_vars

\* An event without a plan signature was emitted for a statement whose
\* schema is disallowed.
C25_EventForDisallowedSchema ==
    /\ Explained /\ last.plan = None
    /\ last.cached = ExplainStrategyError
    /\ last.outcome = "event" /\ last.plan_signature = None

====
